---- MODULE Spec2Model ----
(***************************************************************************)
(* Model of the postman POP3 server: components/pop3/src/lib.rs (server    *)
(* run, Listener accept loop, per-connection Handler) and                  *)
(* components/pop3/src/proto.rs (wire codec).                              *)
(*                                                                         *)
(* A line of text is a sequence of one-character strings, so that          *)
(* splitting, prefix/suffix stripping and keyword matching are computed    *)
(* the way the code computes them.                                         *)
(***************************************************************************)
EXTENDS Integers, Sequences, FiniteSets, TLC

(***************************************************************************)
(* Bounds of the model.                                                    *)
(***************************************************************************)
\* lib.rs:52 sets MAX_CONNECTIONS to 1024; the model runs the same gate with
\* a small number of slots.
MAX_CONNECTIONS == 2

\* Number of clients that ever connect during one run of the server.
NumConns == 3

(***************************************************************************)
(* Program constants.                                                      *)
(***************************************************************************)
\* lib.rs:150  let mut backoff = 1;
InitialBackoff == 1

\* lib.rs:159  if backoff > 64
MaxBackoff == 64

(***************************************************************************)
(* Characters and text.                                                    *)
(***************************************************************************)
SP == " "
CR == "\r"
LF == "\n"
CRLF == <<CR, LF>>

Digits == {"0", "1", "2", "3", "4", "5", "6", "7", "8", "9"}

DigitVal(c) ==
    CASE c = "0" -> 0 [] c = "1" -> 1 [] c = "2" -> 2 [] c = "3" -> 3
      [] c = "4" -> 4 [] c = "5" -> 5 [] c = "6" -> 6 [] c = "7" -> 7
      [] c = "8" -> 8 [] c = "9" -> 9

\* str::ends_with / str::starts_with
EndsWith(v, suf) ==
    /\ Len(v) >= Len(suf)
    /\ SubSeq(v, Len(v) - Len(suf) + 1, Len(v)) = suf

StartsWith(v, pre) ==
    /\ Len(v) >= Len(pre)
    /\ SubSeq(v, 1, Len(pre)) = pre

\* v.split(" ") : the pieces between single spaces, empty pieces included.
RECURSIVE SplitSp(_, _)
SplitSp(v, cur) ==
    IF v = <<>> THEN <<cur>>
    ELSE IF Head(v) = SP THEN <<cur>> \o SplitSp(Tail(v), <<>>)
    ELSE SplitSp(Tail(v), Append(cur, Head(v)))

\* .filter(|s| !s.is_empty())
RECURSIVE NonEmpty(_)
NonEmpty(ps) ==
    IF ps = <<>> THEN <<>>
    ELSE IF Head(ps) = <<>> THEN NonEmpty(Tail(ps))
    ELSE <<Head(ps)>> \o NonEmpty(Tail(ps))

\* A split that keeps the empty pieces.
TokensWithEmpties(v) == SplitSp(v, <<>>)

\* proto.rs:755  v.split(" ").filter(|s| !s.is_empty()).collect()
Tokens(v) == NonEmpty(SplitSp(v, <<>>))

(***************************************************************************)
(* proto.rs: Command                                                       *)
(***************************************************************************)
Commands ==
    {"USER", "PASS", "STAT", "UIDL", "LIST", "RETR", "DELE", "NOOP", "RSET",
     "QUIT", "APOP", "TOP", "AUTH", "CAPA"}

\* Display for Command (proto.rs:668-689): the keyword, as characters.
Keyword(c) ==
    CASE c = "USER" -> <<"U", "S", "E", "R">>
      [] c = "PASS" -> <<"P", "A", "S", "S">>
      [] c = "STAT" -> <<"S", "T", "A", "T">>
      [] c = "UIDL" -> <<"U", "I", "D", "L">>
      [] c = "LIST" -> <<"L", "I", "S", "T">>
      [] c = "RETR" -> <<"R", "E", "T", "R">>
      [] c = "DELE" -> <<"D", "E", "L", "E">>
      [] c = "NOOP" -> <<"N", "O", "O", "P">>
      [] c = "RSET" -> <<"R", "S", "E", "T">>
      [] c = "QUIT" -> <<"Q", "U", "I", "T">>
      [] c = "APOP" -> <<"A", "P", "O", "P">>
      [] c = "TOP" -> <<"T", "O", "P">>
      [] c = "AUTH" -> <<"A", "U", "T", "H">>
      [] c = "CAPA" -> <<"C", "A", "P", "A">>

\* FromStr for Command (proto.rs:644-666): exact match or an error.
Command_from_str(s) ==
    LET m == {c \in Commands : Keyword(c) = s}
    IN  IF m # {}
        THEN [res |-> "Ok", cmd |-> CHOOSE c \in m : TRUE]
        ELSE [res |-> "Err", err |-> "invalid command"]

\* usize::from_str as used by proto.rs:783 etc.: an optional '+', then one or
\* more decimal digits.  The tokens of the model are far too short to
\* overflow usize.
RECURSIVE DecimalValue(_, _)
DecimalValue(ds, acc) ==
    IF ds = <<>> THEN acc
    ELSE DecimalValue(Tail(ds), acc * 10 + DigitVal(Head(ds)))

usize_from_str(s) ==
    LET ds == IF s # <<>> /\ Head(s) = "+" THEN Tail(s) ELSE s
    IN  IF ds # <<>> /\ \A i \in 1..Len(ds) : ds[i] \in Digits
        THEN [res |-> "Ok", val |-> DecimalValue(ds, 0)]
        ELSE [res |-> "Err", err |-> "ParseIntError"]

(***************************************************************************)
(* proto.rs: Request                                                       *)
(***************************************************************************)
\* A wrong number of tokens taken for a STAT.
ArityIgnored == [res |-> "Ok", req |-> [tag |-> "STAT"]]

\* return Err(anyhow!("invalid request for {}: {}", cmd, v))  (proto.rs:761
\* and the like)
ArityErr == [res |-> "Err", err |-> "invalid request"]

OkReq(r) == [res |-> "Ok", req |-> r]

\* The match on cmd of Request::from_str (proto.rs:758-875); vs is the token
\* list, of which vs[1] is the keyword of cmd.  An Option is a sequence of
\* length 0 (None) or 1 (Some).
RequestOfTokens(cmd, vs) ==
    LET n == Len(vs)
        num(i) == usize_from_str(vs[i])
    IN  CASE cmd \in {"STAT", "NOOP", "RSET", "QUIT", "CAPA"} ->
               IF n # 1 THEN ArityErr ELSE OkReq([tag |-> cmd])
          [] cmd \in {"USER", "PASS"} ->
               IF n # 2 THEN ArityErr ELSE OkReq([tag |-> cmd, arg |-> vs[2]])
          [] cmd \in {"UIDL", "LIST"} ->
               IF n = 1 THEN OkReq([tag |-> cmd, id |-> <<>>])
               ELSE IF n = 2
                    THEN IF num(2).res = "Ok"
                         THEN OkReq([tag |-> cmd, id |-> <<num(2).val>>])
                         ELSE num(2)
                    ELSE ArityErr
          [] cmd \in {"RETR", "DELE"} ->
               IF n # 2 THEN ArityErr
               ELSE IF num(2).res = "Ok"
                    THEN OkReq([tag |-> cmd, id |-> num(2).val])
                    ELSE num(2)
          [] cmd = "TOP" ->
               IF n # 3 THEN ArityErr
               ELSE IF num(2).res # "Ok" THEN num(2)
               ELSE IF num(3).res # "Ok" THEN num(3)
               ELSE OkReq([tag |-> cmd, id |-> num(2).val, lines |-> num(3).val])
          [] cmd = "APOP" ->
               IF n # 3 THEN ArityErr
               ELSE OkReq([tag |-> cmd, username |-> vs[2], digest |-> vs[3]])
          [] cmd = "AUTH" ->
               IF n = 1 THEN OkReq([tag |-> cmd, arg |-> <<>>])
               ELSE IF n = 2 THEN OkReq([tag |-> cmd, arg |-> <<vs[2]>>])
               ELSE ArityErr

\* proto.rs:756-877: the keyword vs[0] is looked up and the request is built
\* from the tokens.
RequestOfLine(vs) ==
    IF vs = <<>> THEN [res |-> "Panic", at |-> "vs[0]"]
    ELSE LET c == Command_from_str(vs[1])
         IN  IF c.res = "Err" THEN c ELSE RequestOfTokens(c.cmd, vs)

\* Request::from_str (proto.rs:752-878).  The result is Ok with a request,
\* Err with an error value, or a panic of the calling task:
\*   proto.rs:753  v.strip_suffix("\r\n").unwrap()  panics without a CRLF,
\*   proto.rs:756  vs[0]                            panics on an empty list.
\* (The token list is bound by a quantifier so that it is computed once.)
Request_from_str(v) ==
    IF ~EndsWith(v, CRLF) THEN [res |-> "Panic", at |-> "strip_suffix.unwrap"]
    ELSE CHOOSE r \in {RequestOfLine(vs) :
                         vs \in {Tokens(SubSeq(v, 1, Len(v) - 2))}} : TRUE

\* A conversion that takes RSET for RETR.
CommandOfRequestSwapped(r) == IF r.tag = "RSET" THEN "RETR" ELSE r.tag

\* From<&Request> for Command (proto.rs:691-711)
CommandOfRequest(r) == r.tag

\* From<&Response> for Command (proto.rs:713-731): GREET and ERR fall into
\* the catch-all arm, which panics.  Both values of ListResponse are
\* Response::LIST.
CommandOfResponse(r) ==
    CASE r.tag \in {"AUTH", "CAPA", "DELE", "NOOP", "PASS", "QUIT", "RETR",
                    "STAT", "RSET", "USER"} -> [res |-> "Ok", cmd |-> r.tag]
      [] r.tag \in {"LIST_ALL", "LIST_SINGLE"} -> [res |-> "Ok", cmd |-> "LIST"]
      [] OTHER -> [res |-> "Panic", at |-> "invalid command for response"]

(***************************************************************************)
(* lib.rs: what the Handler answers                                        *)
(***************************************************************************)
\* lib.rs:194  "Welcome to postman pop3 server"
GreetText ==
    <<"W", "e", "l", "c", "o", "m", "e", SP, "t", "o", SP,
      "p", "o", "s", "t", "m", "a", "n", SP, "p", "o", "p", "3", SP,
      "s", "e", "r", "v", "e", "r">>

Greeting == [tag |-> "GREET", msg |-> GreetText]

\* The session state of a connection.  Handler (lib.rs:65-72) has no field
\* for it and the State enum (proto.rs:1100-1112) is never constructed: no
\* request moves a session out of its initial state.
SessionState(h) == "AUTHORIZATION"

\* The user name a session holds, as an Option.  Handler (lib.rs:65-72) has
\* no field for it, and the USER arm (lib.rs:209) binds the name to v and
\* drops it: a session never holds one.
SessionUser(h) == <<>>

\* A match whose CAPA arm lists no capability.
HandlerResponseNoCaps(req) ==
    CASE req.tag = "USER" -> [res |-> "Ok", resp |-> [tag |-> "USER", msg |-> <<>>]]
      [] req.tag = "PASS" -> [res |-> "Ok", resp |-> [tag |-> "PASS", msg |-> <<>>]]
      [] req.tag = "STAT" ->
           [res |-> "Ok", resp |-> [tag |-> "STAT", count |-> 10, size |-> 8]]
      [] req.tag = "AUTH" /\ req.arg = <<>> ->
           [res |-> "Ok", resp |-> [tag |-> "AUTH", methods |-> <<>>]]
      [] req.tag = "CAPA" -> [res |-> "Ok", resp |-> [tag |-> "CAPA", caps |-> <<>>]]
      [] OTHER -> [res |-> "Panic", at |-> "unimplemented"]

\* The match of Handler::run on the decoded request (lib.rs:208-233): the
\* response, or the panic of an unimplemented!() arm.
HandlerResponse(req) ==
    CASE req.tag = "USER" -> [res |-> "Ok", resp |-> [tag |-> "USER", msg |-> <<>>]]
      [] req.tag = "PASS" -> [res |-> "Ok", resp |-> [tag |-> "PASS", msg |-> <<>>]]
      [] req.tag = "STAT" ->
           [res |-> "Ok", resp |-> [tag |-> "STAT", count |-> 10, size |-> 8]]
      [] req.tag = "AUTH" /\ req.arg = <<>> ->
           [res |-> "Ok", resp |-> [tag |-> "AUTH", methods |-> <<>>]]
      [] req.tag = "CAPA" ->
           [res |-> "Ok",
            resp |-> [tag |-> "CAPA",
                      caps |-> <<Keyword("TOP"), Keyword("USER"), Keyword("UIDL")>>]]
      [] OTHER -> [res |-> "Panic", at |-> "unimplemented"]

(***************************************************************************)
(* proto.rs: Response                                                      *)
(***************************************************************************)
DigitChar(d) ==
    CASE d = 0 -> "0" [] d = 1 -> "1" [] d = 2 -> "2" [] d = 3 -> "3"
      [] d = 4 -> "4" [] d = 5 -> "5" [] d = 6 -> "6" [] d = 7 -> "7"
      [] d = 8 -> "8" [] d = 9 -> "9"

\* Display for usize, as used by write!("{}", n).
RECURSIVE usize_to_string(_)
usize_to_string(n) ==
    IF n < 10 THEN <<DigitChar(n)>>
    ELSE usize_to_string(n \div 10) \o <<DigitChar(n % 10)>>

OK == <<"+", "O", "K">>
ERR == <<"-", "E", "R", "R">>

\* v.split("\r\n") : the pieces between CRLFs, empty pieces included.
RECURSIVE SplitCrlf(_, _)
SplitCrlf(v, cur) ==
    IF v = <<>> THEN <<cur>>
    ELSE IF StartsWith(v, CRLF)
         THEN <<cur>> \o SplitCrlf(SubSeq(v, 3, Len(v)), <<>>)
    ELSE SplitCrlf(Tail(v), Append(cur, Head(v)))

\* return Err(anyhow!("invalid response for {}: {}", cmd, v))
\* (proto.rs:1004 and the like)
InvalidResponse == [res |-> "Err", err |-> "invalid response"]

OkResp(r) == [res |-> "Ok", resp |-> r]

\* s.strip_prefix(pre).unwrap() (proto.rs:1008, 1022): the rest of s as an
\* Ok value, or the panic of the unwrap.
strip_prefix_unwrap(s, pre) ==
    IF StartsWith(s, pre)
    THEN [res |-> "Ok", val |-> SubSeq(s, Len(pre) + 1, Len(s))]
    ELSE [res |-> "Panic", at |-> "strip_prefix"]

\* The match on cmd of Response::from_str (proto.rs:1016-1093); vs holds the
\* non-empty lines of v.
ResponseOfLines(cmd, vs) ==
    CASE cmd \in {"UIDL", "LIST", "RETR", "TOP", "APOP"} ->
           [res |-> "Panic", at |-> "unimplemented"]
      [] Len(vs) # 1 -> InvalidResponse
      [] cmd \in {"USER", "PASS"} ->
           LET m == strip_prefix_unwrap(vs[1], OK \o <<SP>>)
           IN  IF m.res = "Ok" THEN OkResp([tag |-> cmd, msg |-> m.val]) ELSE m
      [] cmd = "STAT" ->
           LET ps == SplitSp(vs[1], <<>>)
           IN  IF Len(ps) # 3 THEN InvalidResponse
               ELSE IF usize_from_str(ps[2]).res # "Ok" THEN usize_from_str(ps[2])
               ELSE IF usize_from_str(ps[3]).res # "Ok" THEN usize_from_str(ps[3])
               ELSE OkResp([tag |-> "STAT",
                            count |-> usize_from_str(ps[2]).val,
                            size |-> usize_from_str(ps[3]).val])
      [] cmd \in {"DELE", "NOOP", "QUIT"} -> OkResp([tag |-> cmd])
      [] cmd = "RSET" ->
           LET b == strip_prefix_unwrap(vs[1], OK \o <<SP>>)
           IN  IF b.res = "Ok" THEN OkResp([tag |-> "RETR", body |-> b.val]) ELSE b
      [] cmd \in {"AUTH", "CAPA"} -> [res |-> "Panic", at |-> "unimplemented"]

\* Response::from_str (proto.rs:1002-1097).  The first test (proto.rs:1003)
\* is `!v.starts_with("-ERR") || !v.starts_with("+OK")`.
Response_from_str(v, cmd) ==
    IF ~StartsWith(v, ERR) \/ ~StartsWith(v, OK) THEN InvalidResponse
    ELSE IF StartsWith(v, ERR)
    THEN IF ~StartsWith(v, ERR \o <<SP>>)
         THEN [res |-> "Panic", at |-> "strip_prefix"]
         ELSE IF ~EndsWith(SubSeq(v, 6, Len(v)), CRLF)
         THEN [res |-> "Panic", at |-> "strip_suffix"]
         ELSE OkResp([tag |-> "ERR", msg |-> SubSeq(v, 6, Len(v) - 2)])
    ELSE ResponseOfLines(cmd, NonEmpty(SplitCrlf(v, <<>>)))

\* The two numbers of a TOP written in the other order.
Request_to_stringTopSwapped(r) ==
    LET c == Keyword(CommandOfRequest(r))
    IN  CASE r.tag \in {"CAPA", "NOOP", "QUIT", "RSET", "STAT"} -> c \o CRLF
          [] r.tag \in {"DELE", "RETR"} ->
               c \o <<SP>> \o usize_to_string(r.id) \o CRLF
          [] r.tag \in {"PASS", "USER"} -> c \o <<SP>> \o r.arg \o CRLF
          [] r.tag = "AUTH" ->
               IF r.arg = <<>> THEN c \o CRLF
               ELSE c \o <<SP>> \o r.arg[1] \o CRLF
          [] r.tag \in {"LIST", "UIDL"} ->
               IF r.id = <<>> THEN c \o CRLF
               ELSE c \o <<SP>> \o usize_to_string(r.id[1]) \o CRLF
          [] r.tag = "APOP" ->
               c \o <<SP>> \o r.username \o <<SP>> \o r.digest \o CRLF
          [] r.tag = "TOP" ->
               c \o <<SP>> \o usize_to_string(r.lines) \o <<SP>>
                 \o usize_to_string(r.id) \o CRLF

\* Request::to_string (proto.rs:880-916); no write! into a String fails.
Request_to_string(r) ==
    LET c == Keyword(CommandOfRequest(r))
    IN  CASE r.tag \in {"CAPA", "NOOP", "QUIT", "RSET", "STAT"} -> c \o CRLF
          [] r.tag \in {"DELE", "RETR"} ->
               c \o <<SP>> \o usize_to_string(r.id) \o CRLF
          [] r.tag \in {"PASS", "USER"} -> c \o <<SP>> \o r.arg \o CRLF
          [] r.tag = "AUTH" ->
               IF r.arg = <<>> THEN c \o CRLF
               ELSE c \o <<SP>> \o r.arg[1] \o CRLF
          [] r.tag \in {"LIST", "UIDL"} ->
               IF r.id = <<>> THEN c \o CRLF
               ELSE c \o <<SP>> \o usize_to_string(r.id[1]) \o CRLF
          [] r.tag = "APOP" ->
               c \o <<SP>> \o r.username \o <<SP>> \o r.digest \o CRLF
          [] r.tag = "TOP" ->
               c \o <<SP>> \o usize_to_string(r.id) \o <<SP>>
                 \o usize_to_string(r.lines) \o CRLF


\* for v in v.iter() { write!("{}\r\n", v) }  (proto.rs:959-961, 967-969)
RECURSIVE WriteLines(_)
WriteLines(ls) ==
    IF ls = <<>> THEN <<>> ELSE Head(ls) \o CRLF \o WriteLines(Tail(ls))

\* for v in messages.iter() { write!("{} {}\r\n", v.id, v.size) }
\* (proto.rs:977-979)
RECURSIVE WriteMetas(_)
WriteMetas(ms) ==
    IF ms = <<>> THEN <<>>
    ELSE usize_to_string(Head(ms).id) \o <<SP>> \o usize_to_string(Head(ms).size)
         \o CRLF \o WriteMetas(Tail(ms))

\* Response::to_string (proto.rs:952-1000)
Response_to_string(r) ==
    CASE r.tag = "AUTH" ->
           OK \o <<SP>> \o usize_to_string(Len(r.methods))
              \o <<SP, "a", "u", "t", "h", SP, "m", "e", "t", "h", "o", "d", "s">>
              \o CRLF \o WriteLines(r.methods) \o <<".">> \o CRLF
      [] r.tag = "CAPA" ->
           OK \o <<SP, "C", "a", "p", "a", "b", "i", "l", "i", "t", "y", SP,
                   "l", "i", "s", "t", SP, "f", "o", "l", "l", "o", "w", "s">>
              \o CRLF \o WriteLines(r.caps) \o <<".">> \o CRLF
      [] r.tag \in {"DELE", "NOOP", "QUIT", "RSET"} -> OK \o CRLF
      [] r.tag \in {"GREET", "PASS", "USER"} -> OK \o <<SP>> \o r.msg \o CRLF
      [] r.tag = "LIST_ALL" ->
           OK \o <<SP>> \o usize_to_string(r.count)
              \o <<SP, "m", "e", "s", "s", "a", "g", "e", "s">> \o CRLF
              \o WriteMetas(r.messages) \o <<".">> \o CRLF
      [] r.tag = "LIST_SINGLE" ->
           OK \o <<SP>> \o usize_to_string(r.meta.id) \o <<SP>>
              \o usize_to_string(r.meta.size) \o CRLF
      [] r.tag = "RETR" -> OK \o CRLF \o r.body \o <<".">> \o CRLF
      [] r.tag = "STAT" ->
           OK \o <<SP>> \o usize_to_string(r.count) \o <<SP>>
              \o usize_to_string(r.size) \o CRLF
      [] r.tag = "ERR" -> ERR \o <<SP>> \o r.msg \o CRLF

\* A reply is positive when its bytes start with "+OK", negative when they
\* start with "-ERR".
IsPositive(bytes) == StartsWith(bytes, OK)

IsNegative(bytes) == StartsWith(bytes, ERR)


(***************************************************************************)
(* What clients send                                                       *)
(***************************************************************************)
\* The bytes a client sends before it waits for the reply or closes: a
\* complete line, a line cut short by the end of the stream, or nothing
\* (the stream ends at once).
ClientLines ==
    { Keyword("STAT") \o CRLF,
      Keyword("USER") \o <<SP, "u">> \o CRLF,
      Keyword("PASS") \o <<SP, "p">> \o CRLF,
      Keyword("CAPA") \o CRLF,
      Keyword("AUTH") \o CRLF,
      Keyword("NOOP") \o CRLF,
      Keyword("QUIT") \o CRLF,
      Keyword("DELE") \o <<SP, "1">> \o CRLF,
      Keyword("RSET") \o CRLF,
      Keyword("NOOP") \o <<LF>> \o Keyword("STAT") \o CRLF,
      <<"F", "O", "O">> \o CRLF,
      <<"s", "t", "a", "t">> \o CRLF,
      Keyword("STAT") \o <<SP, "1">> \o CRLF,
      Keyword("DELE") \o <<SP, "x">> \o CRLF,
      <<SP>> \o CRLF,
      CRLF }

PartialLines == { Keyword("STAT"), Keyword("QUIT") \o <<CR>> }

EndOfStream == <<>>

ClientSends == ClientLines \cup PartialLines \cup {EndOfStream}

\* read_line (lib.rs:243-263) on a stream holding the bytes d followed by the
\* end of the stream: read_until(b'\n') is repeated until the data read so
\* far ends with CRLF or a read returns 0 bytes.  The result is the shortest
\* prefix of d that ends with CRLF, or all of d when there is none.
HasLine(d) == \E i \in 1..Len(d) : EndsWith(SubSeq(d, 1, i), CRLF)

read_line(d) ==
    IF HasLine(d)
    THEN LET i == CHOOSE i \in 1..Len(d) :
                    /\ EndsWith(SubSeq(d, 1, i), CRLF)
                    /\ \A j \in 1..(i - 1) : ~EndsWith(SubSeq(d, 1, j), CRLF)
         IN  SubSeq(d, 1, i)
    ELSE d

(***************************************************************************)
(* lib.rs: the store                                                       *)
(***************************************************************************)
\* The bytes of a usize on a 64-bit target.
UsizeBytes == 8

\* usize::to_le_bytes and from_le_bytes: the low byte first.
RECURSIVE LeBytes(_, _)
LeBytes(n, w) ==
    IF w = 0 THEN <<>> ELSE <<n % 256>> \o LeBytes(n \div 256, w - 1)

RECURSIVE FromLeBytes(_)
FromLeBytes(bs) ==
    IF bs = <<>> THEN 0 ELSE Head(bs) + 256 * FromLeBytes(Tail(bs))

RECURSIVE Reversed(_)
Reversed(bs) ==
    IF bs = <<>> THEN <<>> ELSE Reversed(Tail(bs)) \o <<Head(bs)>>

\* key.to_be_bytes() (lib.rs:177, 187): the high byte first.
to_be_bytes(key) == Reversed(LeBytes(key, UsizeBytes))

\* bincode::serialize of a MessageMeta (lib.rs:187; proto.rs:1114-1118): the
\* fields in the order of the struct, each usize as 8 bytes, low byte first.
bincode_serialize(m) == LeBytes(m.id, UsizeBytes) \o LeBytes(m.size, UsizeBytes)

\* bincode::deserialize to a MessageMeta (lib.rs:181): fails on bytes that
\* end before the second field does.
bincode_deserialize(bs) ==
    IF Len(bs) < 2 * UsizeBytes
    THEN [res |-> "Err", err |-> "bincode"]
    ELSE [res |-> "Ok",
          val |-> [id |-> FromLeBytes(SubSeq(bs, 1, UsizeBytes)),
                   size |-> FromLeBytes(SubSeq(bs, UsizeBytes + 1, 2 * UsizeBytes))]]

\* A sled tree is a map from keys to values, both byte strings.
EmptyStore == [k \in {} |-> <<>>]

\* sled::Tree::insert: the value of the key is set or replaced.
sled_insert(d, k, v) ==
    [x \in DOMAIN d \cup {k} |-> IF x = k THEN v ELSE d[x]]

\* What a call of the store may meet: it works, or it fails with an error
\* of the disk.
IoOutcomes == {"ok", "err"}

\* Handler::get (lib.rs:176-184)
Handler_get(d, key, io) ==
    IF io = "err" THEN [res |-> "Err", err |-> "db: read"]
    ELSE IF to_be_bytes(key) \notin DOMAIN d
         THEN [res |-> "Err", err |-> "db: read {}: not found"]
         ELSE bincode_deserialize(d[to_be_bytes(key)])

\* A set that files the message under its own id, not under the key.
Handler_setUnderOwnId(d, key, value, io) ==
    IF io = "err" THEN [res |-> "Err", err |-> "db: insert", db |-> d]
    ELSE [res |-> "Ok",
          db |-> sled_insert(d, to_be_bytes(value.id), bincode_serialize(value))]

\* Handler::set (lib.rs:185-190): the result and the store after the call.
Handler_set(d, key, value, io) ==
    IF io = "err" THEN [res |-> "Err", err |-> "db: insert", db |-> d]
    ELSE [res |-> "Ok",
          db |-> sled_insert(d, to_be_bytes(key), bincode_serialize(value))]

\* The store with the messages ms, each under its id.
RECURSIVE StoreOf(_)
StoreOf(ms) ==
    IF ms = {} THEN EmptyStore
    ELSE LET m == CHOOSE x \in ms : TRUE
         IN  sled_insert(StoreOf(ms \ {m}), to_be_bytes(m.id), bincode_serialize(m))

\* The stores run may open (lib.rs:83).  Messages are put there by the
\* delivery side, not by this server.
Mailboxes ==
    { StoreOf({}),
      StoreOf({[id |-> 1, size |-> 120], [id |-> 2, size |-> 200]}) }

(***************************************************************************)
(* State                                                                   *)
(***************************************************************************)
VARIABLES
    db,                     \* the sled store shared by all handlers (lib.rs:83)
    limit_connections,      \* permits left in the Semaphore (lib.rs:85)
    lpc,                    \* where the future of Listener::run stands
    backoff,                \* the local of Listener::accept (lib.rs:150)
    nconn,                  \* sockets accepted so far = handlers spawned
    shutdown,               \* the shutdown future given to run (lib.rs:77)
    rpc,                    \* where run stands
    notify_shutdown,        \* the broadcast::Sender (lib.rs:79)
    shutdown_complete_tx,   \* live mpsc::Sender handles (lib.rs:80)
    hpc,                    \* per connection: where the handler task stands
    conn,                   \* per connection: the client's side of the stream
    s,                      \* per connection: the line read (lib.rs:200)
    greet,                  \* per connection: the local greet (lib.rs:194)
    resp,                   \* per connection: the response built (lib.rs:208)
    lastWrite,              \* per connection: outcome of the last write
    call,                   \* the function of proto.rs called on its own
    arg,                    \* its argument
    ret                     \* what it returned

vars ==
    <<db, limit_connections, lpc, backoff, nconn, shutdown, rpc, notify_shutdown,
      shutdown_complete_tx, hpc, conn, s, greet, resp, lastWrite,
      call, arg, ret>>

listenerVars == <<limit_connections, lpc, backoff, nconn>>
runVars == <<shutdown, rpc, notify_shutdown, shutdown_complete_tx>>
handlerVars == <<hpc, conn, s, greet, resp, lastWrite>>
codecVars == <<call, arg, ret>>

Conns == 1..NumConns

NoResp == [tag |-> "NONE"]

\* A call that has not returned yet, or no call at all.
NoRet == [res |-> "None"]

\* A handler task that was spawned and has neither returned nor panicked.
LivePcs == {"greet", "read", "dispatch", "write"}

\* Handler::run returned Err (logged at lib.rs:140-142) or the task panicked.
FinishedPcs == {"err", "panic"}

LiveHandlers == {h \in Conns : hpc[h] \in LivePcs}

FinishedHandlers == {h \in Conns : hpc[h] \in FinishedPcs}

\* run (lib.rs:79-89): the channels, the Semaphore with MAX_CONNECTIONS
\* permits and the Listener are built; no task is spawned yet.
ServerInit ==
    /\ limit_connections = MAX_CONNECTIONS
    /\ lpc = "acquire"
    /\ backoff = InitialBackoff
    /\ nconn = 0
    /\ shutdown = "pending"
    /\ rpc = "select"
    /\ notify_shutdown = "open"
    /\ shutdown_complete_tx = 1
    /\ hpc = [h \in Conns |-> "unspawned"]
    /\ conn = [h \in Conns |-> "none"]
    /\ s = [h \in Conns |-> <<>>]
    /\ greet = [h \in Conns |-> NoResp]
    /\ db \in Mailboxes
    /\ resp = [h \in Conns |-> NoResp]
    /\ lastWrite = [h \in Conns |-> "none"]

(***************************************************************************)
(* Listener::run and Listener::accept (lib.rs:118-172).  The future of     *)
(* Listener::run is one arm of the select! of run; it stands at one of its *)
(* await points: "acquire" (lib.rs:122), "accept" (lib.rs:156) or "sleep"  *)
(* (lib.rs:167).                                                           *)
(***************************************************************************)
\* An acquire that does not wait for a permit.
ListenerAcquireNoWait ==
    /\ lpc = "acquire"
    /\ limit_connections' = IF limit_connections > 0 THEN limit_connections - 1 ELSE 0
    /\ backoff' = InitialBackoff
    /\ lpc' = "accept"
    /\ UNCHANGED <<codecVars, db, nconn, runVars, handlerVars>>

\* lib.rs:122  self.limit_connections.acquire().await.forget(): waits for a
\* permit and takes it for good; then accept() starts with backoff = 1.
ListenerAcquire ==
    /\ lpc = "acquire"
    /\ limit_connections > 0
    /\ limit_connections' = limit_connections - 1
    /\ backoff' = InitialBackoff
    /\ lpc' = "accept"
    /\ UNCHANGED <<codecVars, db, nconn, runVars, handlerVars>>

\* lib.rs:156-157 and 126-143: a socket is accepted, its Handler is built
\* and spawned as a task, and the loop goes back to acquire.  The local
\* backoff ends with the call of accept; the next call starts at 1 again.
ListenerAcceptOk ==
    /\ lpc = "accept"
    /\ nconn < NumConns
    /\ nconn' = nconn + 1
    /\ hpc' = [hpc EXCEPT ![nconn + 1] = "greet"]
    /\ conn' = [conn EXCEPT ![nconn + 1] = "open"]
    /\ lpc' = "acquire"
    /\ backoff' = InitialBackoff
    /\ UNCHANGED <<codecVars, db, limit_connections, runVars, s, greet, resp, lastWrite>>

\* lib.rs:102-112: the Listener is taken apart, both senders are dropped and
\* run goes on to shutdown_complete_rx.recv().
RunDropSenders ==
    /\ notify_shutdown' = "dropped"
    /\ shutdown_complete_tx' = shutdown_complete_tx - 1
    /\ rpc' = "recv"

\* lib.rs:158-163: accept failed.  With backoff > 64 the error is returned,
\* Listener::run returns it through `?` (lib.rs:124) and the first arm of the
\* select! completes (lib.rs:92-96); otherwise the loop goes to sleep.
ListenerAcceptErr ==
    /\ lpc = "accept"
    /\ IF backoff > MaxBackoff
       THEN /\ lpc' = "err"
            /\ rpc = "select"
            /\ RunDropSenders
            /\ UNCHANGED shutdown
       ELSE /\ lpc' = "sleep"
            /\ UNCHANGED runVars
    /\ UNCHANGED <<codecVars, db, limit_connections, backoff, nconn, handlerVars>>

\* A sleep after which the backoff is one more, not twice as much.
ListenerSleepAddsOne ==
    /\ lpc = "sleep"
    /\ backoff' = backoff + 1
    /\ lpc' = "accept"
    /\ UNCHANGED <<codecVars, db, limit_connections, nconn, runVars, handlerVars>>

\* lib.rs:167-170: the sleep ends and the backoff is doubled.
ListenerSleep ==
    /\ lpc = "sleep"
    /\ backoff' = backoff * 2
    /\ lpc' = "accept"
    /\ UNCHANGED <<codecVars, db, limit_connections, nconn, runVars, handlerVars>>

(***************************************************************************)
(* run (lib.rs:74-115)                                                     *)
(***************************************************************************)
\* An accept loop that outlives the select!, as a task of its own would.
SelectKeepsListener == lpc' = lpc

\* A select! that completes drops the futures of its other arms: the future
\* of Listener::run is gone, wherever it stood.
SelectDropsListener == lpc' = "dropped"

\* lib.rs:97-99: the shutdown future completes while the future of
\* Listener::run is pending at one of its await points.
SelectShutdown ==
    /\ rpc = "select"
    /\ shutdown = "pending"
    /\ shutdown' = "fired"
    /\ SelectDropsListener
    /\ RunDropSenders
    /\ UNCHANGED <<codecVars, db, limit_connections, backoff, nconn, handlerVars>>

\* A run that hands the error of the accept loop on to its caller.
RunRecvPropagates ==
    /\ rpc = "recv"
    /\ shutdown_complete_tx = 0
    /\ rpc' = IF lpc = "err" THEN "failed" ELSE "returned"
    /\ UNCHANGED <<codecVars, db, shutdown, notify_shutdown, shutdown_complete_tx,
                   listenerVars, handlerVars>>

\* lib.rs:112-114: recv() returns None once every sender is dropped, and run
\* returns Ok(()): rpc = "returned".
RunRecv ==
    /\ rpc = "recv"
    /\ shutdown_complete_tx = 0
    /\ rpc' = "returned"
    /\ UNCHANGED <<codecVars, db, shutdown, notify_shutdown, shutdown_complete_tx,
                   listenerVars, handlerVars>>

(***************************************************************************)
(* Handler::run (lib.rs:191-240), one task per accepted socket.            *)
(***************************************************************************)
\* The write of the greeting (lib.rs:196) is the first write on a socket just
\* accepted: its send buffer is empty and takes the 36 bytes whole, or the
\* write fails.
WriteOutcomes == {"ok", "err"}

\* lib.rs:236 calls write, not write_all: one call may take the whole
\* buffer, only a first part of it when the send buffer of the socket is
\* short of room (Ok(n) with n below the length), or fail.
ResponseWriteOutcomes == {"ok", "partial", "err"}

\* A greeting whose write may fail without ending the handler.
HandlerGreetIgnoresError(h) ==
    /\ hpc[h] = "greet"
    /\ greet' = [greet EXCEPT ![h] = Greeting]
    /\ \E o \in WriteOutcomes : lastWrite' = [lastWrite EXCEPT ![h] = o]
    /\ hpc' = [hpc EXCEPT ![h] = "read"]
    /\ UNCHANGED <<codecVars, db, conn, s, resp, listenerVars, runVars>>

\* lib.rs:194-196: the greeting is built and written; a failed write returns
\* the error.
HandlerGreet(h) ==
    /\ hpc[h] = "greet"
    /\ greet' = [greet EXCEPT ![h] = Greeting]
    /\ \E o \in WriteOutcomes :
         IF o = "ok"
         THEN /\ hpc' = [hpc EXCEPT ![h] = "read"]
              /\ lastWrite' = [lastWrite EXCEPT ![h] = "ok"]
         ELSE /\ hpc' = [hpc EXCEPT ![h] = "err"]
              /\ lastWrite' = [lastWrite EXCEPT ![h] = "err"]
    /\ UNCHANGED <<codecVars, db, conn, s, resp, listenerVars, runVars>>

\* lib.rs:200: read_line returns the next line, or what is left when the
\* stream ends (nothing, once it has ended), or the read fails and the error
\* is returned.
HandlerRead(h) ==
    /\ hpc[h] = "read"
    /\ \/ \E d \in ClientSends :
            /\ conn[h] = "open" \/ d = EndOfStream
            /\ s' = [s EXCEPT ![h] = read_line(d)]
            /\ conn' = [conn EXCEPT ![h] = IF HasLine(d) THEN "open" ELSE "eof"]
            /\ hpc' = [hpc EXCEPT ![h] = "dispatch"]
       \/ /\ conn[h] = "open"
          /\ hpc' = [hpc EXCEPT ![h] = "err"]
          /\ UNCHANGED <<s, conn>>
    /\ lastWrite' = [lastWrite EXCEPT ![h] = "none"]
    /\ UNCHANGED <<codecVars, db, greet, resp, listenerVars, runVars>>

\* What becomes of the line s (lib.rs:201-233): "continue" for an empty
\* string, the error or panic of Request::from_str, the panic of an
\* unimplemented!() arm, or the response to write.
HandlerStep(line) ==
    IF line = <<>> THEN [res |-> "Continue"]
    ELSE CHOOSE r \in {IF d.res # "Ok" THEN d ELSE HandlerResponse(d.req) :
                         d \in {Request_from_str(line)}} : TRUE

\* A dispatch that empties the store when the session ends.
HandlerDispatchCommits(h) ==
    /\ hpc[h] = "dispatch"
    /\ \E r \in {HandlerStep(s[h])} :
           /\ hpc' = [hpc EXCEPT ![h] =
                        CASE r.res = "Continue" -> "read"
                          [] r.res = "Err" -> "err"
                          [] r.res = "Panic" -> "panic"
                          [] r.res = "Ok" -> "write"]
           /\ resp' = IF r.res = "Ok" THEN [resp EXCEPT ![h] = r.resp] ELSE resp
           /\ db' = IF r.res \in {"Err", "Panic"} THEN EmptyStore ELSE db
    /\ s' = [s EXCEPT ![h] = IF hpc'[h] = "write" THEN s[h] ELSE <<>>]
    /\ UNCHANGED <<codecVars, conn, greet, lastWrite, listenerVars, runVars>>

\* lib.rs:201-235
HandlerDispatch(h) ==
    /\ hpc[h] = "dispatch"
    /\ \E r \in {HandlerStep(s[h])} :
           CASE r.res = "Continue" ->
                  /\ hpc' = [hpc EXCEPT ![h] = "read"]
                  /\ resp' = resp
             [] r.res = "Err" ->
                  /\ hpc' = [hpc EXCEPT ![h] = "err"]
                  /\ resp' = resp
             [] r.res = "Panic" ->
                  /\ hpc' = [hpc EXCEPT ![h] = "panic"]
                  /\ resp' = resp
             [] r.res = "Ok" ->
                  /\ hpc' = [hpc EXCEPT ![h] = "write"]
                  /\ resp' = [resp EXCEPT ![h] = r.resp]
    /\ s' = [s EXCEPT ![h] = IF hpc'[h] = "write" THEN s[h] ELSE <<>>]
    /\ UNCHANGED <<codecVars, db, conn, greet, lastWrite, listenerVars, runVars>>

\* lib.rs:236: the response is written and the result of the write is
\* dropped; the loop goes on to the next read_line.
HandlerWrite(h) ==
    /\ hpc[h] = "write"
    /\ \E o \in ResponseWriteOutcomes :
           lastWrite' = [lastWrite EXCEPT ![h] = o]
    /\ hpc' = [hpc EXCEPT ![h] = "read"]
    /\ s' = [s EXCEPT ![h] = <<>>]
    /\ resp' = [resp EXCEPT ![h] = NoResp]
    /\ UNCHANGED <<codecVars, db, conn, greet, listenerVars, runVars>>

\* The server as run starts it; no function of proto.rs is called on its own.
Init ==
    /\ ServerInit
    /\ call = "none"
    /\ arg = <<>>
    /\ ret = NoRet

Next ==
    \/ ListenerAcquire
    \/ ListenerAcceptOk
    \/ ListenerAcceptErr
    \/ ListenerSleep
    \/ SelectShutdown
    \/ RunRecv
    \/ \E h \in Conns : HandlerGreet(h)
    \/ \E h \in Conns : HandlerRead(h)
    \/ \E h \in Conns : HandlerDispatch(h)
    \/ \E h \in Conns : HandlerWrite(h)

Spec == Init /\ [][Next]_vars

\* The runtime keeps polling every task that can go on: a handler that has a
\* line, a response to write or a stream at its end, the accept loop that can
\* take a permit or whose sleep is over, and run.  What clients do (connect,
\* send, close) and when the shutdown future completes are not up to the
\* server.
HandlerProgress(h) ==
    \/ HandlerGreet(h)
    \/ HandlerDispatch(h)
    \/ HandlerWrite(h)
    \/ conn[h] = "eof" /\ HandlerRead(h)

ListenerProgress == ListenerAcquire \/ ListenerSleep

FairSpec ==
    /\ Spec
    /\ WF_vars(ListenerProgress)
    /\ WF_vars(RunRecv)
    /\ \A h \in Conns : WF_vars(HandlerProgress(h))

(***************************************************************************)
(* The functions of proto.rs called on their own: one call, on an argument *)
(* drawn when the behaviour starts, of Request::from_str, of               *)
(* Response::to_string, or of the conversion of a decoded Request or of a  *)
(* Response to its Command.                                                *)
(***************************************************************************)
RECURSIVE JoinSp(_)
JoinSp(ts) ==
    IF ts = <<>> THEN <<>>
    ELSE IF Len(ts) = 1 THEN Head(ts)
    ELSE Head(ts) \o <<SP>> \o JoinSp(Tail(ts))

\* The arguments that follow the keyword: none to three tokens, numbers or
\* words.
ArgLists ==
    { <<>>,
      << <<"1">> >>,
      << <<"x">> >>,
      << <<"1">>, <<"2">> >>,
      << <<"x">>, <<"y">> >>,
      << <<"1">>, <<"2">>, <<"3">> >> }

\* The lines given to Request::from_str (proto.rs:752): every keyword with
\* every argument list, and what clients send to a handler.
DecodeLines ==
    {JoinSp(<<Keyword(c)>> \o a) \o CRLF : c \in Commands, a \in ArgLists}
        \cup ClientSends

M1 == [id |-> 1, size |-> 120]
M2 == [id |-> 2, size |-> 200]

\* The String of Response::RETR (proto.rs:929): message bodies, among them
\* bodies with a line that is or begins with a dot, and one whose last line
\* has no CRLF.
Bodies ==
    { <<>>,
      <<"a">> \o CRLF,
      <<".">> \o CRLF,
      <<"a">> \o CRLF \o <<".">> \o CRLF \o <<"b">> \o CRLF,
      <<".", "a">> \o CRLF \o <<"b", ".">> \o CRLF,
      <<"a">> \o CRLF \o <<"b">> }

\* The values of Response (proto.rs:919-935) given to Response::to_string.
\* The fields count and messages of ListResponse::All (proto.rs:940-943) are
\* independent of each other.
EncodeInputs ==
    {[tag |-> "AUTH", methods |-> m] :
        m \in {<<>>, <<<<"P", "L", "A", "I", "N">>>>}}
    \cup {[tag |-> "CAPA", caps |-> c] :
        c \in {<<>>, <<Keyword("TOP"), Keyword("USER"), Keyword("UIDL")>>}}
    \cup {[tag |-> c] : c \in {"DELE", "NOOP", "QUIT", "RSET"}}
    \cup {[tag |-> c, msg |-> m] :
        c \in {"GREET", "PASS", "USER", "ERR"}, m \in {<<>>, <<"x">>, GreetText}}
    \cup {[tag |-> "LIST_ALL", count |-> n, messages |-> ms] :
        n \in 0..2, ms \in {<<>>, <<M1>>, <<M1, M2>>, <<M2, M1>>}}
    \cup {[tag |-> "LIST_SINGLE", meta |-> m] : m \in {M1, M2}}
    \cup {[tag |-> "RETR", body |-> b] : b \in Bodies}
    \cup {[tag |-> "STAT", count |-> n, size |-> z] :
        n \in {0, 2, 10}, z \in {0, 8, 320}}

\* The Strings of a Request (proto.rs:733-749): words, a word that is a
\* number, and strings that are empty or hold a space, a CR or an LF.
RequestStrings ==
    { <<"x">>, <<"a", "b">>, <<"1">>, Keyword("USER"),
      <<>>, <<"a", SP, "b">>, <<SP>>, <<"a", CR>>, <<LF, "b">> }

\* The usizes of a Request.
RequestNumbers == {0, 1, 10, 120}

\* The values of Request (proto.rs:733-749) given to Request::to_string.
EncodeRequests ==
    {[tag |-> c] : c \in {"CAPA", "NOOP", "QUIT", "RSET", "STAT"}}
    \cup {[tag |-> c, id |-> n] : c \in {"DELE", "RETR"}, n \in RequestNumbers}
    \cup {[tag |-> c, arg |-> x] : c \in {"PASS", "USER"}, x \in RequestStrings}
    \cup {[tag |-> "AUTH", arg |-> o] :
            o \in {<<>>} \cup {<<x>> : x \in RequestStrings}}
    \cup {[tag |-> c, id |-> o] :
            c \in {"LIST", "UIDL"}, o \in {<<>>} \cup {<<n>> : n \in RequestNumbers}}
    \cup {[tag |-> "APOP", username |-> u, digest |-> d] :
            u \in RequestStrings, d \in RequestStrings}
    \cup {[tag |-> "TOP", id |-> n, lines |-> l] :
            n \in RequestNumbers, l \in RequestNumbers}

\* The arguments of Response::from_str (proto.rs:1002): the bytes of a
\* Response of EncodeInputs, kept with that Response, and a Command.
DecodeResponses == [resp : EncodeInputs, cmd : Commands]

CodecInit ==
    /\ ServerInit
    /\ db = EmptyStore
    /\ ret = NoRet
    /\ \/ call = "Request::from_str" /\ arg \in DecodeLines
       \/ call = "Response::to_string" /\ arg \in EncodeInputs
       \/ call = "Command::from(&Request)" /\ arg \in DecodeLines
       \/ call = "Command::from(&Response)" /\ arg \in EncodeInputs
       \/ call = "Request::to_string" /\ arg \in EncodeRequests
       \/ call = "Response::from_str" /\ arg \in DecodeResponses

serverVars == <<db, listenerVars, runVars, handlerVars>>

\* Request::from_str (proto.rs:752-878) on the line arg
CallRequestFromStr ==
    /\ call = "Request::from_str"
    /\ ret = NoRet
    /\ ret' = Request_from_str(arg)
    /\ UNCHANGED <<call, arg, serverVars>>

\* Response::to_string (proto.rs:952-1000) on the response arg; no write!
\* into a String fails.
CallResponseToString ==
    /\ call = "Response::to_string"
    /\ ret = NoRet
    /\ ret' = [res |-> "Ok", val |-> Response_to_string(arg)]
    /\ UNCHANGED <<call, arg, serverVars>>

\* Command::from (proto.rs:691-711) on the Request that the line arg decodes
\* to, when it decodes to one.
CallCommandFromRequest ==
    /\ call = "Command::from(&Request)"
    /\ ret = NoRet
    /\ \E d \in {Request_from_str(arg)} :
          ret' = IF d.res = "Ok"
                 THEN [res |-> "Ok", cmd |-> CommandOfRequest(d.req)]
                 ELSE d
    /\ UNCHANGED <<call, arg, serverVars>>

\* Command::from (proto.rs:713-731) on the response arg
CallCommandFromResponse ==
    /\ call = "Command::from(&Response)"
    /\ ret = NoRet
    /\ ret' = CommandOfResponse(arg)
    /\ UNCHANGED <<call, arg, serverVars>>

\* Request::to_string (proto.rs:880-916) on the request arg, and
\* Request::from_str (proto.rs:752-878) on the line it gives
CallRequestRoundTrip ==
    /\ call = "Request::to_string"
    /\ ret = NoRet
    /\ \E line \in {Request_to_string(arg)} :
          ret' = [line |-> line, decoded |-> Request_from_str(line)]
    /\ UNCHANGED <<call, arg, serverVars>>

\* Response::to_string (proto.rs:952-1000) on the response arg.resp, and
\* Response::from_str (proto.rs:1002-1097) on the bytes it gives and the
\* command arg.cmd
CallResponseRoundTrip ==
    /\ call = "Response::from_str"
    /\ ret = NoRet
    /\ \E bytes \in {Response_to_string(arg.resp)} :
          ret' = [bytes |-> bytes, decoded |-> Response_from_str(bytes, arg.cmd)]
    /\ UNCHANGED <<call, arg, serverVars>>

CodecNext ==
    \/ CallRequestFromStr
    \/ CallResponseToString
    \/ CallCommandFromRequest
    \/ CallCommandFromResponse
    \/ CallRequestRoundTrip
    \/ CallResponseRoundTrip

CodecSpec == CodecInit /\ [][CodecNext]_vars

(***************************************************************************)
(* The store called on its own: any sequence of calls of Handler::set and  *)
(* Handler::get, on a store that run may have opened.                      *)
(***************************************************************************)
\* The keys of the calls are 1..MaxKey.
MaxKey == 3

StoreKeys == 1..MaxKey

\* The values put: messages under their own id or under another key, and a
\* message of size 0.
StoreMetas == {M1, M2, [id |-> 3, size |-> 0]}

StoreInit ==
    /\ ServerInit
    /\ call = "none"
    /\ arg = <<>>
    /\ ret = NoRet

\* Handler::set (lib.rs:185-190) with a key and a value
CallSet ==
    \E key \in StoreKeys, value \in StoreMetas, io \in IoOutcomes :
        \E r \in {Handler_set(db, key, value, io)} :
            /\ call' = "Handler::set"
            /\ arg' = [key |-> key, value |-> value]
            /\ db' = r.db
            /\ ret' = [res |-> r.res]
            /\ UNCHANGED <<listenerVars, runVars, handlerVars>>

\* Handler::get (lib.rs:176-184) with a key
CallGet ==
    \E key \in StoreKeys, io \in IoOutcomes :
        /\ call' = "Handler::get"
        /\ arg' = [key |-> key]
        /\ ret' = Handler_get(db, key, io)
        /\ UNCHANGED serverVars

StoreNext == CallSet \/ CallGet

StoreSpec == StoreInit /\ [][StoreNext]_vars

(***************************************************************************)
(* Properties                                                              *)
(***************************************************************************)
\* C1: every accepted connection gives its slot back exactly once, when its
\* handler finishes: no more than MAX_CONNECTIONS permits ever exist, and
\* when the accept loop holds no slot and no spawned handler is still
\* running, every permit is available again.
C1_SlotsReturned ==
    /\ limit_connections <= MAX_CONNECTIONS
    /\ (lpc = "acquire" /\ LiveHandlers = {}) =>
           limit_connections = MAX_CONNECTIONS

\* C2: when run has returned, no handler it spawned is still running.
C2_RunWaitsForHandlers == rpc = "returned" => LiveHandlers = {}

\* C3: after shutdown has fired every live handler eventually leaves its
\* loop, even when its client stays connected and sends nothing more.
C3_ShutdownClosesHandlers ==
    \A h \in Conns :
        (shutdown = "fired" /\ hpc[h] \in LivePcs /\ conn[h] = "open")
            ~> (hpc[h] \notin LivePcs \/ conn[h] # "open")

\* C4: once the shutdown future has completed, no step accepts a socket or
\* spawns a handler.
C4_NoAcceptAfterShutdown ==
    [][shutdown' = "fired" =>
          /\ nconn' = nconn
          /\ \A h \in Conns : hpc[h] = "unspawned" => hpc'[h] = "unspawned"]_vars

\* C4 witness: shutdown fired while the accept loop, after a failed accept,
\* held a slot in accept or in its backoff sleep, with a handler running and
\* a client still to connect.
C4_Witness ==
    /\ shutdown = "fired"
    /\ lpc = "dropped"
    /\ backoff > InitialBackoff
    /\ LiveHandlers # {}
    /\ nconn < NumConns

\* C5: at most MAX_CONNECTIONS handlers are running at any time, and while no
\* permit is left the accept loop stays in acquire and accepts no socket.
C5_BoundedConnections ==
    /\ [](Cardinality(LiveHandlers) <= MAX_CONNECTIONS)
    /\ [][(lpc = "acquire" /\ limit_connections = 0) =>
             (nconn' = nconn /\ lpc' \in {"acquire", "dropped"})]_vars

\* C5 witness: every slot is taken by a running handler, the accept loop
\* waits in acquire and another client is still to connect.
C5_Witness ==
    /\ lpc = "acquire"
    /\ limit_connections = 0
    /\ Cardinality(LiveHandlers) = MAX_CONNECTIONS
    /\ nconn < NumConns

\* C6: an accept loop blocked in acquire with no permit left, after a handler
\* has finished, eventually gets a slot (or is stopped by shutdown).
C6_BlockedAcceptResumes ==
    (lpc = "acquire" /\ limit_connections = 0 /\ FinishedHandlers # {})
        ~> (lpc # "acquire")

MailboxCommands ==
    {"STAT", "LIST", "UIDL", "RETR", "DELE", "NOOP", "RSET", "TOP"}

\* The handler of h has read a line that decodes to a request.
Decoded(h) ==
    /\ hpc[h] = "dispatch"
    /\ s[h] # <<>>
    /\ Request_from_str(s[h]).res = "Ok"

\* The handler of h has read a line that fails to decode.
Undecodable(h) ==
    /\ hpc[h] = "dispatch"
    /\ s[h] # <<>>
    /\ Request_from_str(s[h]).res # "Ok"

\* The handler of h goes on to write a negative reply.
WritesNegativeReply(h) ==
    /\ hpc'[h] = "write"
    /\ IsNegative(Response_to_string(resp'[h]))

\* C7: a mailbox command issued before authentication is answered with a
\* negative reply.
C7_MailboxCommandsRejectedBeforeAuth ==
    [][\A h \in Conns :
          (/\ Decoded(h)
           /\ SessionState(h) = "AUTHORIZATION"
           /\ Request_from_str(s[h]).req.tag \in MailboxCommands
           /\ hpc'[h] # hpc[h])
          => WritesNegativeReply(h)]_vars

\* C8: a decoded request other than QUIT never ends the session: the handler
\* goes on to write a reply.
C8_OnlyQuitEndsSession ==
    [][\A h \in Conns :
          (/\ Decoded(h)
           /\ Request_from_str(s[h]).req.tag # "QUIT"
           /\ hpc'[h] # hpc[h])
          => hpc'[h] = "write"]_vars

\* C9: a line that fails to decode is answered with a negative reply and the
\* handler keeps running.
C9_DecodeFailureAnswered ==
    [][\A h \in Conns :
          (Undecodable(h) /\ hpc'[h] # hpc[h]) => WritesNegativeReply(h)]_vars

\* C10: a handler never goes back to reading a stream that has ended.
C10_NoReadAfterEndOfStream ==
    \A h \in Conns : ~(hpc[h] = "read" /\ conn[h] = "eof")

\* C11: a failed write of a response ends the handler at once: a handler
\* whose last write failed is finished, it is not back in its loop about to
\* read the next line.
C11_FailedWriteEndsHandler ==
    \A h \in Conns : lastWrite[h] = "err" => hpc[h] \in FinishedPcs

\* C12: the next request is never read before every byte of the response to
\* the last one has been written: a handler never stands before read_line
\* while only a part of its last response is on the wire.
C12_ResponseWrittenBeforeNextRead ==
    \A h \in Conns : hpc[h] = "read" => lastWrite[h] # "partial"

C14_GreetingNonceUnique ==
    \A h1, h2 \in Conns :
        (/\ h1 # h2
         /\ hpc[h1] \in {"read", "dispatch", "write"}
         /\ hpc[h2] \in {"read", "dispatch", "write"})
        => Response_to_string(greet[h1]) # Response_to_string(greet[h2])

\* The ids of the stored messages.
StoredIds == {FromLeBytes(Reversed(k)) : k \in DOMAIN db}

\* The stored messages.
StoredMetas == {bincode_deserialize(db[k]).val : k \in DOMAIN db}

\* C15: a DELE that names a stored message is carried out and answered,
\* positively while the message is not marked deleted and negatively
\* (AlreadyDeleted) once it is: the handler goes on to write a DELE or an ERR
\* reply, and the session stays open for the STAT and LIST that follow.
C15_DeleteAnswered ==
    [][\A h \in Conns :
          (/\ Decoded(h)
           /\ Request_from_str(s[h]).req.tag = "DELE"
           /\ Request_from_str(s[h]).req.id \in StoredIds
           /\ hpc'[h] # hpc[h])
          => (hpc'[h] = "write" /\ resp'[h].tag \in {"DELE", "ERR"})]_vars

\* C16: RSET is carried out: the handler clears the marks and goes on to
\* write the positive RSET reply, after which STAT and LIST answer as before
\* the first DELE.
C16_ResetAnswered ==
    [][\A h \in Conns :
          (/\ Decoded(h)
           /\ Request_from_str(s[h]).req.tag = "RSET"
           /\ hpc'[h] # hpc[h])
          => (hpc'[h] = "write" /\ resp'[h].tag = "RSET")]_vars

\* C17: QUIT is carried out: in TRANSACTION the handler removes the messages
\* marked deleted, in AUTHORIZATION it removes nothing, and in both it then
\* closes the connection; it does not abort on the request.
C17_QuitCarriedOut ==
    [][\A h \in Conns :
          (/\ Decoded(h)
           /\ Request_from_str(s[h]).req.tag = "QUIT"
           /\ hpc'[h] # hpc[h])
          => (hpc'[h] # "panic" /\ DOMAIN db' \subseteq DOMAIN db)]_vars

\* A QUIT is being dispatched in a session that is in TRANSACTION.
QuitInTransaction ==
    \E h \in Conns :
        /\ SessionState(h) = "TRANSACTION"
        /\ Decoded(h)
        /\ Request_from_str(s[h]).req.tag = "QUIT"

\* C18: no step other than the QUIT of a session in TRANSACTION changes the
\* store: however a session ends, the stored messages are those it found.
C18_OnlyQuitCommits ==
    [][~QuitInTransaction => db' = db]_vars

\* C18 witness: over a store that holds messages, one session has ended
\* with an error and another by aborting, and shutdown has fired.
C18_Witness ==
    /\ DOMAIN db # {}
    /\ shutdown = "fired"
    /\ \E h1, h2 \in Conns : hpc[h1] = "err" /\ hpc[h2] = "panic"

RECURSIVE TotalSize(_)
TotalSize(ms) ==
    IF ms = {} THEN 0
    ELSE LET m == CHOOSE x \in ms : TRUE
         IN  m.size + TotalSize(ms \ {m})

\* C19: the reply to STAT is "+OK <count> <size>" with the number of stored
\* messages and the sum of their sizes (no message is ever marked deleted).
C19_StatCountsMailbox ==
    [][\A h \in Conns :
          (/\ Decoded(h)
           /\ Request_from_str(s[h]).req.tag = "STAT"
           /\ hpc'[h] # hpc[h])
          => /\ hpc'[h] = "write"
             /\ Response_to_string(resp'[h]) =
                    OK \o <<SP>> \o usize_to_string(Cardinality(DOMAIN db))
                       \o <<SP>> \o usize_to_string(TotalSize(StoredMetas)) \o CRLF]_vars

\* C20: a PASS in a session that holds no user name gets a negative reply.
C20_PassNeedsUser ==
    [][\A h \in Conns :
          (/\ Decoded(h)
           /\ Request_from_str(s[h]).req.tag = "PASS"
           /\ SessionUser(h) = <<>>
           /\ hpc'[h] # hpc[h])
          => WritesNegativeReply(h)]_vars

\* The lines of a text: the pieces that CRLF ends, and what is left after
\* the last CRLF when that is not empty.
RECURSIVE LinesOf(_)
LinesOf(b) ==
    IF b = <<>> THEN <<>>
    ELSE IF ~HasLine(b) THEN <<b>>
    ELSE LET i == CHOOSE i \in 2..Len(b) :
                     /\ SubSeq(b, i - 1, i) = CRLF
                     /\ \A j \in 2..(i - 1) : SubSeq(b, j - 1, j) # CRLF
         IN  <<SubSeq(b, 1, i - 2)>> \o LinesOf(SubSeq(b, i + 1, Len(b)))

MultiLineTags == {"AUTH", "CAPA", "LIST_ALL", "RETR"}

\* The data lines a multi-line response carries.
DataLines(r) ==
    CASE r.tag = "AUTH" -> r.methods
      [] r.tag = "CAPA" -> r.caps
      [] r.tag = "LIST_ALL" ->
           [i \in 1..Len(r.messages) |->
               usize_to_string(r.messages[i].id) \o <<SP>>
                   \o usize_to_string(r.messages[i].size)]
      [] r.tag = "RETR" -> LinesOf(r.body)

\* A data line as it is to be transmitted.
Stuffed(l) == IF l # <<>> /\ Head(l) = "." THEN <<".">> \o l ELSE l

\* The call of Response::to_string has returned.
Encoded == call = "Response::to_string" /\ ret # NoRet

\* C21: in the encoding of a multi-line response whose data is made of whole
\* lines, the lines between the status line and the terminator are the data
\* lines, each with one more dot in front when it begins with a dot.
C21_ByteStuffing ==
    (/\ Encoded
     /\ arg.tag \in MultiLineTags
     /\ arg.tag = "RETR" => (arg.body = <<>> \/ EndsWith(arg.body, CRLF)))
    => LET out == LinesOf(ret.val)
           data == DataLines(arg)
       IN  /\ Len(out) = Len(data) + 2
           /\ \A i \in 1..Len(data) : out[i + 1] = Stuffed(data[i])

\* One status line and nothing else.
SingleLineShape(out) ==
    /\ EndsWith(out, CRLF)
    /\ Len(LinesOf(out)) = 1
    /\ IsPositive(out) \/ IsNegative(out)

\* A status line, data lines none of which is a lone dot, and the terminator
\* on a line of its own.
MultiLineShape(out) ==
    LET ls == LinesOf(out)
    IN  /\ EndsWith(out, CRLF)
        /\ Len(ls) >= 2
        /\ IsPositive(ls[1])
        /\ ls[Len(ls)] = <<".">>
        /\ \A i \in 1..(Len(ls) - 1) : ls[i] # <<".">>

\* C22: every encoded response is one status line, or for the multi-line
\* variants a status line, data lines and a terminator line that is exactly
\* a dot, with no lone dot on an earlier line.
C22_ResponseShape ==
    Encoded =>
        IF arg.tag \in MultiLineTags
        THEN MultiLineShape(ret.val)
        ELSE SingleLineShape(ret.val)

\* C23: a LIST-all response is encoded as "+OK <count> messages", one
\* "<id> <size>" line per listed message in the order given, and the
\* terminator, where <count> is the number of those lines.
C23_ListAllCountsItsLines ==
    (Encoded /\ arg.tag = "LIST_ALL") =>
        ret.val = OK \o <<SP>> \o usize_to_string(Len(arg.messages))
                     \o <<SP, "m", "e", "s", "s", "a", "g", "e", "s">> \o CRLF
                     \o WriteLines(DataLines(arg)) \o <<".">> \o CRLF

\* The capability list as it goes over the wire.
CapaReply ==
    OK \o <<SP, "C", "a", "p", "a", "b", "i", "l", "i", "t", "y", SP,
            "l", "i", "s", "t", SP, "f", "o", "l", "l", "o", "w", "s">> \o CRLF
       \o <<"T", "O", "P">> \o CRLF
       \o <<"U", "S", "E", "R">> \o CRLF
       \o <<"U", "I", "D", "L">> \o CRLF
       \o <<".">> \o CRLF

\* C24: whatever the session has seen before, a CAPA is answered with the
\* same positive reply, the static capability list, and the step changes
\* neither the state of the session nor the store.
C24_CapaStatic ==
    [][\A h \in Conns :
          (/\ hpc'[h] # hpc[h]
           /\ Decoded(h)
           /\ Request_from_str(s[h]).req.tag = "CAPA")
          => /\ hpc'[h] = "write"
             /\ Response_to_string(resp'[h]) = CapaReply
             /\ IsPositive(Response_to_string(resp'[h]))
             /\ SessionState(h)' = SessionState(h)
             /\ SessionUser(h)' = SessionUser(h)
             /\ db' = db]_vars

\* C24 witness: a handler has built the reply to a CAPA while another one
\* has built the reply to a different request.
C24_Witness ==
    \E h1, h2 \in Conns :
        /\ hpc[h1] = "write" /\ resp[h1].tag = "CAPA"
        /\ hpc[h2] = "write" /\ resp[h2].tag = "USER"

\* C25: a line that does not end in CRLF, such as the partial last line read
\* when the stream ends in the middle of a line, makes the decode fail with
\* an error value; the handler task does not abort on it.
C25_MissingCrlfIsAnError ==
    [][\A h \in Conns :
          (/\ hpc[h] = "dispatch"
           /\ s[h] # <<>>
           /\ ~EndsWith(s[h], CRLF)
           /\ hpc'[h] # hpc[h])
          => /\ Request_from_str(s[h]).res = "Err"
             /\ hpc'[h] # "panic"]_vars

\* The call of Request::from_str, on a line that ends with CRLF, has
\* returned.
DecodedLine ==
    call = "Request::from_str" /\ ret # NoRet /\ EndsWith(arg, CRLF)

\* The tokens of the line arg without its CRLF.
ArgTokens == Tokens(SubSeq(arg, 1, Len(arg) - 2))

\* The first token of the line is, letter for letter, one of the keywords.
FirstTokenIsKeyword ==
    ArgTokens # <<>> /\ \E c \in Commands : Keyword(c) = ArgTokens[1]

\* C26: a line decodes to a Request only when its first token is exactly one
\* of the 14 keywords; every other line, a lower-case keyword or a line with
\* no token among them, fails with an error value.
C26_UnknownCommandIsAnError ==
    DecodedLine =>
        /\ Cardinality(Commands) = 14
        /\ ret.res = "Ok" => FirstTokenIsKeyword
        /\ ~FirstTokenIsKeyword => ret.res = "Err"

\* The numbers of arguments each command takes.
ArgCounts(c) ==
    CASE c \in {"STAT", "NOOP", "RSET", "QUIT", "CAPA"} -> {0}
      [] c \in {"USER", "PASS", "RETR", "DELE"} -> {1}
      [] c \in {"TOP", "APOP"} -> {2}
      [] c \in {"LIST", "UIDL", "AUTH"} -> {0, 1}

\* The command named by the first token of the line.
ArgCommand == CHOOSE c \in Commands : Keyword(c) = ArgTokens[1]

\* Every argument of the line is a number.
ArgsAreNumbers ==
    \A i \in 2..Len(ArgTokens) : usize_from_str(ArgTokens[i]).res = "Ok"

\* C27: a line whose keyword is followed by a number of arguments that its
\* command does not take fails with the error of a wrong count and gives no
\* Request; with a number it takes, and numbers for arguments, it decodes.
C27_ArgumentCounts ==
    (DecodedLine /\ FirstTokenIsKeyword) =>
        /\ (Len(ArgTokens) - 1) \notin ArgCounts(ArgCommand) =>
              ret = [res |-> "Err", err |-> "invalid request"]
        /\ ((Len(ArgTokens) - 1) \in ArgCounts(ArgCommand) /\ ArgsAreNumbers) =>
              ret.res = "Ok"

\* C27 witness: a TOP with three arguments has been refused.
C27_Witness ==
    /\ DecodedLine
    /\ FirstTokenIsKeyword
    /\ ArgCommand = "TOP"
    /\ Len(ArgTokens) = 4
    /\ ret.res = "Err"

\* A space put into the text v after its first k characters.
WithSpaceAt(v, k) == SubSeq(v, 1, k) \o <<SP>> \o SubSeq(v, k + 1, Len(v))

\* The places of the text v that are not inside a token: its two ends and
\* either side of a space.
Gaps(v) ==
    {k \in 0..Len(v) :
        \/ k = 0
        \/ k = Len(v)
        \/ v[k] = SP
        \/ v[k + 1] = SP}

\* The lines made from the line arg by one more space before, between or
\* after its tokens, ahead of the CRLF.
Padded ==
    LET v == SubSeq(arg, 1, Len(arg) - 2)
    IN  {WithSpaceAt(v, k) \o CRLF : k \in Gaps(v)}

\* C28: a line with one more space before, between or after its tokens
\* decodes to the same Request, or fails in the same way, as the line
\* without it.
C28_ExtraSpacesIgnored ==
    DecodedLine => \A p \in Padded : Request_from_str(p) = ret

\* C28 witness: a line of three tokens has been decoded to a Request, and a
\* space can be added to it in four places or more.
C28_Witness ==
    /\ DecodedLine
    /\ ret.res = "Ok"
    /\ Len(ArgTokens) = 3
    /\ Cardinality(Padded) >= 4

\* C29: the Request a line decodes to is converted to the one Command whose
\* keyword is the first token of the line, and a Response other than GREET
\* and ERR is converted to a Command; neither conversion fails.
C29_CommandOfRequestAndResponse ==
    /\ (/\ call = "Command::from(&Request)"
        /\ ret # NoRet
        /\ Request_from_str(arg).res = "Ok")
       => /\ ret.res = "Ok"
          /\ ret.cmd \in Commands
          /\ Keyword(ret.cmd) = ArgTokens[1]
    /\ (/\ call = "Command::from(&Response)"
        /\ ret # NoRet
        /\ arg.tag \notin {"GREET", "ERR"})
       => /\ ret.res = "Ok"
          /\ ret.cmd \in Commands

\* C29 witness: the Request decoded from a RSET line has been converted.
C29_Witness ==
    /\ call = "Command::from(&Request)"
    /\ arg = Keyword("RSET") \o CRLF
    /\ ret.res = "Ok"

\* C30: a call of accept starts with a backoff of 1; after a failed attempt
\* it waits for the backoff and doubles it (1, 2, 4, 8, 16, 32, 64) while the
\* backoff is at most 64, and returns the error at the first failure with a
\* backoff above 64, which is then 128, the eighth failure in a row; an
\* accepted socket ends the call.
C30_AcceptBackoff ==
    /\ [](backoff \in {1, 2, 4, 8, 16, 32, 64, 128})
    /\ [][/\ (lpc = "acquire" /\ lpc' = "accept") => backoff' = 1
          /\ (lpc = "accept" /\ lpc' = "sleep") =>
                (backoff <= 64 /\ backoff' = backoff)
          /\ (lpc = "sleep" /\ lpc' = "accept") => backoff' = 2 * backoff
          /\ (lpc = "accept" /\ lpc' = "err") => backoff = 128
          /\ (lpc = "accept" /\ backoff > 64) => lpc' # "sleep"
          /\ (lpc = "accept" /\ nconn' # nconn) =>
                (nconn' = nconn + 1 /\ lpc' = "acquire")]_vars

\* C30 witness: accept has returned the error of its eighth failure in a
\* row, in a call made after an earlier call had accepted a socket.
C30_Witness ==
    /\ lpc = "err"
    /\ backoff = 128
    /\ nconn > 0

\* The error of a key that is not in the store.
NotFound == [res |-> "Err", err |-> "db: read {}: not found"]

\* C31: after a set of a key that worked, a get of that key gives the value
\* that was set, whatever the key held before, and a get of any other key
\* gives what it gave before the set; a get of a key that the store does not
\* hold gives the not-found error.
C31_StorePutGet ==
    /\ [][(call' = "Handler::set" /\ ret'.res = "Ok") =>
             /\ Handler_get(db', arg'.key, "ok") = [res |-> "Ok", val |-> arg'.value]
             /\ \A k \in StoreKeys \ {arg'.key} :
                   Handler_get(db', k, "ok") = Handler_get(db, k, "ok")]_vars
    /\ [][(/\ call = "Handler::set" /\ ret.res = "Ok"
           /\ call' = "Handler::get" /\ arg'.key = arg.key
           /\ ret' # Handler_get(db, arg'.key, "err"))
          => ret' = [res |-> "Ok", val |-> arg.value]]_vars
    /\ [][(/\ call' = "Handler::get"
           /\ to_be_bytes(arg'.key) \notin DOMAIN db
           /\ ret' # Handler_get(db, arg'.key, "err"))
          => ret' = NotFound]_vars

\* C31 witness: a get of key 1 has returned a message that only a set can
\* have put there, in place of the message the store held under that key.
C31_Witness ==
    /\ call = "Handler::get"
    /\ arg.key = 1
    /\ ret = [res |-> "Ok", val |-> M2]
    /\ to_be_bytes(2) \in DOMAIN db
    /\ to_be_bytes(3) \notin DOMAIN db

\* A String of a Request that is not empty and holds no space, CR or LF.
PlainString(x) == x # <<>> /\ \A i \in 1..Len(x) : x[i] \notin {SP, CR, LF}

\* The Strings of the request r.
StringsOf(r) ==
    CASE r.tag \in {"PASS", "USER"} -> {r.arg}
      [] r.tag = "AUTH" -> {r.arg[i] : i \in 1..Len(r.arg)}
      [] r.tag = "APOP" -> {r.username, r.digest}
      [] OTHER -> {}

\* C32: a request whose strings are not empty and hold no space, CR or LF is
\* given back by decoding the line that encoding it produces, for each of
\* the 14 variants.
C32_RequestRoundTrip ==
    (/\ call = "Request::to_string"
     /\ ret # NoRet
     /\ \A x \in StringsOf(arg) : PlainString(x))
    => ret.decoded = [res |-> "Ok", req |-> arg]

\* C32 witness: a TOP with two different numbers has been encoded and
\* decoded.
C32_Witness ==
    /\ call = "Request::to_string"
    /\ arg = [tag |-> "TOP", id |-> 10, lines |-> 0]
    /\ ret # NoRet
    /\ ret.decoded = [res |-> "Ok", req |-> arg]

\* The responses of one line that Response::from_str has an arm for.
DecodedTags == {"USER", "PASS", "STAT", "DELE", "NOOP", "RSET", "QUIT", "ERR"}

\* The command arg.cmd is the one of the response arg.resp; an ERR answers
\* any command.
MatchingCommand ==
    arg.resp.tag = "ERR" \/ CommandOfResponse(arg.resp) = [res |-> "Ok", cmd |-> arg.cmd]

\* C33: decoding the bytes that encoding a USER, PASS, STAT, DELE, NOOP,
\* RSET, QUIT or ERR response produces, with the command of that response,
\* succeeds and gives back the same response.
C33_ResponseRoundTrip ==
    (/\ call = "Response::from_str"
     /\ ret # NoRet
     /\ arg.resp.tag \in DecodedTags
     /\ MatchingCommand)
    => ret.decoded = [res |-> "Ok", resp |-> arg.resp]

\* run has left its select! after the accept loop returned its error.
AcceptGaveUp == lpc = "err"

\* run has left its select! after the shutdown future completed.
ShutdownAsked == shutdown = "fired"

\* What the caller of run sees: whether run has returned, and that it
\* returned Ok(()).
RunOutcome == IF rpc \in {"select", "recv"} THEN "running" ELSE rpc

\* C34: when the accept loop has returned its error, run has dropped both
\* senders as it does after a shutdown signal, it waits in recv with nothing
\* left to wait for or has returned, and it returns nothing but Ok(()); what
\* the caller sees is the same as after a shutdown signal.
C34_AcceptErrorNotPropagated ==
    /\ AcceptGaveUp =>
          /\ shutdown = "pending"
          /\ notify_shutdown = "dropped"
          /\ shutdown_complete_tx = 0
          /\ RunOutcome \in {"running", "returned"}
          /\ rpc = "recv" => ENABLED RunRecv
    /\ ShutdownAsked =>
          /\ notify_shutdown = "dropped"
          /\ shutdown_complete_tx = 0
          /\ RunOutcome \in {"running", "returned"}
          /\ rpc = "recv" => ENABLED RunRecv

\* C34 witness: the accept loop gave up, no shutdown was asked for, and run
\* has returned.
C34_Witness ==
    /\ AcceptGaveUp
    /\ ~ShutdownAsked
    /\ backoff > MaxBackoff
    /\ rpc = "returned"

====
